---- MODULE Spec2Model ----
(***************************************************************************)
(* AsyncCollectiveCreator::Run (xla/service/async_collective_creator.cc): *)
(* the pass that replaces synchronous collectives of an HloModule by      *)
(* start/done pairs and patches the schedule of scheduled computations.   *)
(*                                                                         *)
(* The module is a set of instructions (keyed by unique id, which is also  *)
(* the insertion order of HloComputation::instructions()), a root per      *)
(* computation and an optional schedule.  Run is modelled statement by     *)
(* statement: the candidate scan of one computation, one rewrite per       *)
(* candidate (one action per DynCast branch), the schedule patch, and the  *)
(* return.                                                                 *)
(***************************************************************************)
EXTENDS Integers, Sequences, FiniteSets, TLC

\* ------------------------------------------------------------------ bounds

\* Instructions after the parameter in computation 1 of an input module.
MaxOps == 2

\* Calls of Run on the same module.
MaxRuns == 2

\* ------------------------------------------------------------------ state

VARIABLES
  \* the HloModule
  instrs,            \* id -> instruction (computation, opcode, operands, ...)
  root,              \* computation -> id of its root instruction
  next_id,           \* the module's next unique instruction id
  has_schedule,      \* module->has_schedule()
  sequences,         \* scheduled computation -> sequence of instruction ids
  \* the pass object
  convert_all_reduce_,
  convert_all_gather_,
  convert_collective_permute_,
  convert_all_to_all_,
  track_send_recv_separately_,
  \* one call of Run
  pc,                \* "idle" | "scan" | "rewrite" | "crashed"
  execution_threads,
  computations,      \* computations still to process
  computation,       \* the computation being processed
  supported_collectives,
  replaced_pairs,
  should_update_schedule,
  changed,
  result,            \* what the last call returned
  \* history (read by the properties only)
  pre,               \* the module when the current call started
  replaced_by,       \* original id -> the start/done created for it in this call
  history            \* the finished calls: their arguments and results

vars == <<instrs, root, next_id, has_schedule, sequences,
          convert_all_reduce_, convert_all_gather_, convert_collective_permute_,
          convert_all_to_all_, track_send_recv_separately_,
          pc, execution_threads, computations, computation,
          supported_collectives, replaced_pairs, should_update_schedule,
          changed, result, pre, replaced_by, history>>

module_vars == <<instrs, root, next_id, has_schedule, sequences>>

config_vars == <<convert_all_reduce_, convert_all_gather_,
                 convert_collective_permute_, convert_all_to_all_,
                 track_send_recv_separately_>>

\* ---------------------------------------------------------------- helpers

EmptyMap == [x \in {} |-> 0]

Comps == {1, 2}

\* The execution thread of each computation of the input modules.
ExecutionThread(c) == IF c = 1 THEN "main" ELSE "aux"

Min(S) == CHOOSE m \in S : \A x \in S : m <= x

RECURSIVE SortedSeq(_)
SortedSeq(S) ==
  IF S = {} THEN <<>>
  ELSE LET m == Min(S) IN <<m>> \o SortedSeq(S \ {m})

Range(s) == {s[k] : k \in DOMAIN s}

Last(s) == s[Len(s)]

\* A caller-supplied predicate over instructions, named by what it accepts.
PredNames == {"all", "odd"}

Accepts(pred, i) ==
  CASE pred = "all"  -> TRUE
    [] pred = "odd"  -> i % 2 = 1
    [] pred = "none" -> FALSE

\* What Run returns: StatusOr<bool>.  context is the id of the instruction a
\* failure's message names, 0 when the message names none.
NoResult == [kind |-> "none", value |-> FALSE, context |-> 0]

OkResult(v) == [kind |-> "ok", value |-> v, context |-> 0]

FailureResult(ctx) == [kind |-> "failure", value |-> FALSE, context |-> ctx]

\* ------------------------------------------------- the IR (collaborators)

Instr(c, opcode, operands) ==
  [computation |-> c, opcode |-> opcode, operands |-> operands,
   custom_call_target |-> "", has_side_effect |-> FALSE,
   control_successors |-> {}, infer_ok |-> TRUE]

\* HloComputation::instructions(): the live instructions in insertion order.
Instructions(I, c) == SortedSeq({i \in DOMAIN I : I[i].computation = c})

\* HloModule::MakeNonfusionComputations(execution_threads): an empty set
\* selects every computation.
MakeNonfusionComputations(threads) ==
  SortedSeq({c \in Comps : threads = {} \/ ExecutionThread(c) \in threads})

\* HloComputation::AddInstruction
AddInstruction(I, id, rec) ==
  [i \in DOMAIN I \cup {id} |-> IF i = id THEN rec ELSE I[i]]

\* HloInstruction::ReplaceAllUsesWith
ReplaceAllUsesWith(I, old, new) ==
  [i \in DOMAIN I |->
     [I[i] EXCEPT !.operands =
        [k \in DOMAIN I[i].operands |->
           IF I[i].operands[k] = old THEN new ELSE I[i].operands[k]]]]

\* HloComputation::RemoveInstruction
RemoveInstruction(I, old) ==
  [i \in DOMAIN I \ {old} |->
     [I[i] EXCEPT !.control_successors = @ \ {old}]]

\* HloComputation::ReplaceInstruction(old, new): every user of old reads new
\* instead, new is the root if old was, and old is removed.  A failure
\* (ok = FALSE) leaves the graph as it was.
ReplaceInstruction(I, r, old, new, ok) ==
  IF ok
  THEN [ok |-> TRUE,
        instrs |-> RemoveInstruction(ReplaceAllUsesWith(I, old, new), old),
        root |-> [c \in DOMAIN r |-> IF r[c] = old THEN new ELSE r[c]]]
  ELSE [ok |-> FALSE, instrs |-> I, root |-> r]

\* HloComputation::ReplaceWithNewInstruction(old, new): AddInstruction(new),
\* then ReplaceInstruction(old, new).
ReplaceWithNewInstruction(I, r, old, id, rec, ok) ==
  ReplaceInstruction(AddInstruction(I, id, rec), r, old, id, ok)

\* HloInstruction::AddControlDependencyTo: both instructions must be of the
\* same computation.
AddControlDependencyTo(I, from, to) ==
  IF I[from].computation = I[to].computation
  THEN [ok |-> TRUE,
        instrs |-> [I EXCEPT ![from].control_successors = @ \cup {to}]]
  ELSE [ok |-> FALSE, instrs |-> I]

\* HloComputation::CreateAsyncInstructions(instruction, context_shapes): an
\* async-start over the instruction's operands, an async-done over the start,
\* and the instruction replaced by the done.  Returns the done.
CreateAsyncInstructions(I, r, ata, id, ok) ==
  IF ok
  THEN LET withStart == AddInstruction(I, id,
                          Instr(I[ata].computation, "kAsyncStart", I[ata].operands))
           withDone == AddInstruction(withStart, id + 1,
                          Instr(I[ata].computation, "kAsyncDone", <<id>>))
           rep == ReplaceInstruction(withDone, r, ata, id + 1, TRUE)
       IN [ok |-> TRUE, instrs |-> rep.instrs, root |-> rep.root, done |-> id + 1]
  ELSE [ok |-> FALSE, instrs |-> I, root |-> r, done |-> 0]

\* HloInstruction::CreateUnary(shape, opcode, operand)
CreateUnary(c, opcode, operand) == Instr(c, opcode, <<operand>>)

\* HloInstruction::CreateCustomCall(shape, operands, target)
CreateCustomCall(c, operands, target) ==
  [Instr(c, "kCustomCall", operands) EXCEPT !.custom_call_target = target]

\* ------------------------------------------------------- the input modules

OpKinds == {"AR", "AG", "CP1", "CP4", "CP4x", "A2A", "Add"}

OpSeqs(n) == UNION {[1..k -> OpKinds] : k \in 1..n}

\* Computation 2 holds one instruction after its parameter.
OpSeqs2 == {<<"CP1">>, <<"Add">>}

\* The instruction at position j of a computation whose parameter has id
\* base + 1: position 0 is the parameter, position j > 0 reads position j - 1.
InputInstr(c, base, ops, j) ==
  LET p == base + 1
      prev == base + j
      prev2 == IF j >= 2 THEN base + j - 1 ELSE p
      kind == ops[j]
  IN IF j = 0 THEN Instr(c, "kParameter", <<>>)
     ELSE CASE kind = "AR"   -> Instr(c, "kAllReduce", <<prev, p>>)
            [] kind = "AG"   -> Instr(c, "kAllGather", <<prev>>)
            [] kind = "CP1"  -> Instr(c, "kCollectivePermute", <<prev>>)
            [] kind = "CP4"  -> Instr(c, "kCollectivePermute", <<prev, p, p, p>>)
            [] kind = "CP4x" -> [Instr(c, "kCollectivePermute", <<prev, p, p, p>>)
                                   EXCEPT !.infer_ok = FALSE]
            [] kind = "A2A"  -> Instr(c, "kAllToAll", <<prev>>)
            [] kind = "Add"  -> Instr(c, "kAdd", <<prev, prev2>>)

InputInstrs(ops1, ops2) ==
  LET n1 == Len(ops1) + 1
      n2 == Len(ops2) + 1
  IN [i \in 1..(n1 + n2) |->
        IF i <= n1 THEN InputInstr(1, 0, ops1, i - 1)
        ELSE InputInstr(2, n1, ops2, i - n1 - 1)]

OpcodesOf(I) == {I[i].opcode : i \in DOMAIN I}

\* ------------------------------------------------------------------- Init

Init ==
  \E ops1 \in OpSeqs(MaxOps), ops2 \in OpSeqs2,
     scheduled \in {{}, {1}, {1, 2}},
     ar \in PredNames, ag \in PredNames, cp \in PredNames, ata \in PredNames,
     track \in {"all", "none"} :
    LET I == InputInstrs(ops1, ops2) IN
    \* a predicate over a kind the module does not hold is never called
    /\ "kAllReduce" \notin OpcodesOf(I) => ar = "all"
    /\ "kAllGather" \notin OpcodesOf(I) => ag = "all"
    /\ "kCollectivePermute" \notin OpcodesOf(I) => (cp = "all" /\ track = "none")
    /\ "kAllToAll" \notin OpcodesOf(I) => ata = "all"
    /\ instrs = I
    /\ root = [c \in Comps |-> IF c = 1 THEN Len(ops1) + 1
                                ELSE Len(ops1) + Len(ops2) + 2]
    /\ next_id = Len(ops1) + Len(ops2) + 3
    /\ has_schedule = (scheduled # {})
    /\ sequences = [c \in scheduled |-> Instructions(I, c)]
    /\ convert_all_reduce_ = ar
    /\ convert_all_gather_ = ag
    /\ convert_collective_permute_ = cp
    /\ convert_all_to_all_ = ata
    /\ track_send_recv_separately_ = track
    /\ pc = "idle"
    /\ execution_threads = {}
    /\ computations = <<>>
    /\ computation = 0
    /\ supported_collectives = <<>>
    /\ replaced_pairs = EmptyMap
    /\ should_update_schedule = FALSE
    /\ changed = FALSE
    /\ result = NoResult
    /\ pre = [instrs |-> I, root |-> root, sequences |-> sequences]
    /\ replaced_by = EmptyMap
    /\ history = <<>>


\* ------------------------------------------------------------ the pass

\* Mutant of InitialChanged: the flag starts out set.
InitialChanged_True == TRUE

\* bool changed = false;
InitialChanged == FALSE

\* Mutant of IsSupportedCollective: the all-to-all disjunct is missing.
IsSupportedCollective_NoAllToAll(I, i) ==
  \/ (I[i].opcode = "kAllReduce" /\ Accepts(convert_all_reduce_, i))
  \/ (I[i].opcode = "kAllGather" /\ Accepts(convert_all_gather_, i))
  \/ (I[i].opcode = "kCollectivePermute" /\ Accepts(convert_collective_permute_, i))

\* Mutant of IsSupportedCollective: the predicates are not consulted.
IsSupportedCollective_IgnorePredicates(I, i) ==
  I[i].opcode \in {"kAllReduce", "kAllGather", "kCollectivePermute", "kAllToAll"}

\* The condition of the candidate scan: the opcode is one of the four kinds
\* and the predicate of that kind accepts the instruction.
IsSupportedCollective(I, i) ==
  \/ (I[i].opcode = "kAllReduce" /\ Accepts(convert_all_reduce_, i))
  \/ (I[i].opcode = "kAllGather" /\ Accepts(convert_all_gather_, i))
  \/ (I[i].opcode = "kCollectivePermute" /\ Accepts(convert_collective_permute_, i))
  \/ (I[i].opcode = "kAllToAll" /\ Accepts(convert_all_to_all_, i))

\* The candidates of a computation, in the order of instructions().
SupportedCollectives(I, c) ==
  SelectSeq(Instructions(I, c), LAMBDA i : IsSupportedCollective(I, i))

ShouldUpdateSchedule(c) == has_schedule /\ c \in DOMAIN sequences

\* replaced_pairs[key] = pair
Put(map, key, val) ==
  [x \in DOMAIN map \cup {key} |-> IF x = key THEN val ELSE map[x]]

CreateAllReduceStart(I, ar) ==
  Instr(I[ar].computation, "kAllReduceStart", I[ar].operands)

CreateAllGatherStart(I, ag) ==
  Instr(I[ag].computation, "kAllGatherStart", I[ag].operands)

\* Mutant of CreateCollectivePermuteStart: the four-operand variant is built
\* like the single-operand one.
CreateCollectivePermuteStart_OperandZeroOnly(I, cp) ==
  Instr(I[cp].computation, "kCollectivePermuteStart", <<I[cp].operands[1]>>)

\* The single-operand variant reads operand 0; the four-operand variant reads
\* operands 0..3.
CreateCollectivePermuteStart(I, cp) ==
  IF Len(I[cp].operands) = 1
  THEN Instr(I[cp].computation, "kCollectivePermuteStart", <<I[cp].operands[1]>>)
  ELSE Instr(I[cp].computation, "kCollectivePermuteStart",
             <<I[cp].operands[1], I[cp].operands[2],
               I[cp].operands[3], I[cp].operands[4]>>)

\* InferCollectivePermuteStartShape(operand_shapes).value() of the
\* four-operand variant: value() of a failed StatusOr ends the process.
StartShapeValueCrashes(I, cp) ==
  Len(I[cp].operands) # 1 /\ (Len(I[cp].operands) # 4 \/ ~I[cp].infer_ok)

\* $cp_recv_done: reads the start, marked as having a side effect.
CpRecvDone(c, start) ==
  [CreateCustomCall(c, <<start>>, "$cp_recv_done") EXCEPT !.has_side_effect = TRUE]

\* Mutant of CpSendDone: set_custom_call_has_side_effect is not called.
CpSendDone_NoSideEffect(c, start) ==
  CreateCustomCall(c, <<start>>, "$cp_send_done")

\* $cp_send_done: reads the start, marked as having a side effect.
CpSendDone(c, start) ==
  [CreateCustomCall(c, <<start>>, "$cp_send_done") EXCEPT !.has_side_effect = TRUE]

\* Mutant of NewSequence: done is pushed before start.
RECURSIVE NewSequence_DoneFirst(_, _)
NewSequence_DoneFirst(sequence, pairs) ==
  IF sequence = <<>> THEN <<>>
  ELSE LET instr == Head(sequence) IN
       (IF instr \in DOMAIN pairs
        THEN <<pairs[instr].done, pairs[instr].start>>
        ELSE <<instr>>) \o NewSequence_DoneFirst(Tail(sequence), pairs)

\* The schedule patch: each replaced slot becomes start, done.
RECURSIVE NewSequence(_, _)
NewSequence(sequence, pairs) ==
  IF sequence = <<>> THEN <<>>
  ELSE LET instr == Head(sequence) IN
       (IF instr \in DOMAIN pairs
        THEN <<pairs[instr].start, pairs[instr].done>>
        ELSE <<instr>>) \o NewSequence(Tail(sequence), pairs)

\* The message of a failure returned through TF_RETURN_WITH_CONTEXT_IF_ERROR
\* names the instruction ("replacing ", ar->ToShortString()).
WithContext(i) == FailureResult(i)

\* The message of a failure returned through TF_RETURN_IF_ERROR or
\* TF_ASSIGN_OR_RETURN is the callee's own.
WithoutContext == FailureResult(0)

\* Run returns res to its caller.
ReturnFrom(res) ==
  /\ pc' = "idle"
  /\ result' = res
  /\ history' = Append(history,
                       [execution_threads |-> execution_threads, result |-> res])

\* The caller runs the pass; a failed or crashed run ends the compilation.
StartRun ==
  /\ pc = "idle"
  /\ Len(history) < MaxRuns
  /\ history # <<>> => Last(history).result.kind = "ok"
  /\ \E threads \in {{}, {"main"}} :
       /\ execution_threads' = threads
       /\ computations' = MakeNonfusionComputations(threads)
  /\ changed' = InitialChanged
  /\ pc' = "scan"
  /\ result' = NoResult
  /\ computation' = 0
  /\ supported_collectives' = <<>>
  /\ replaced_pairs' = EmptyMap
  /\ should_update_schedule' = FALSE
  /\ pre' = [instrs |-> instrs, root |-> root, sequences |-> sequences]
  /\ replaced_by' = EmptyMap
  /\ UNCHANGED <<module_vars, config_vars, history>>

\* The head of the loop over the computations: the candidate scan.
ScanComputation ==
  /\ pc = "scan"
  /\ computations # <<>>
  /\ LET c == Head(computations)
         found == SupportedCollectives(instrs, c)
     IN /\ computation' = c
        /\ supported_collectives' = found
        /\ IF found = <<>>
           THEN /\ computations' = Tail(computations)
                /\ UNCHANGED <<pc, replaced_pairs, should_update_schedule>>
           ELSE /\ pc' = "rewrite"
                /\ replaced_pairs' = EmptyMap
                /\ should_update_schedule' = ShouldUpdateSchedule(c)
                /\ UNCHANGED computations
  /\ UNCHANGED <<module_vars, config_vars, execution_threads, changed, result,
                 pre, replaced_by, history>>

\* What follows the creation of the start and done of one candidate: the
\* entry of replaced_pairs, the replacement, changed = true.
FinishRewrite(old, rep, nid, pair, send_done, failure) ==
  /\ instrs' = rep.instrs
  /\ root' = rep.root
  /\ next_id' = nid
  /\ replaced_pairs' = IF should_update_schedule
                       THEN Put(replaced_pairs, old, pair)
                       ELSE replaced_pairs
  /\ IF rep.ok
     THEN /\ changed' = TRUE
          /\ supported_collectives' = Tail(supported_collectives)
          /\ replaced_by' = Put(replaced_by, old,
                                [start |-> pair.start, done |-> pair.done,
                                 send_done |-> send_done])
          /\ UNCHANGED <<pc, result, history>>
     ELSE /\ ReturnFrom(failure)
          /\ UNCHANGED <<changed, supported_collectives, replaced_by>>
  /\ UNCHANGED <<has_schedule, sequences, config_vars, execution_threads,
                 computations, computation, should_update_schedule, pre>>

RewriteAllReduce ==
  /\ pc = "rewrite"
  /\ supported_collectives # <<>>
  /\ LET ar == Head(supported_collectives)
         start == next_id
         done == next_id + 1
         withStart == AddInstruction(instrs, start, CreateAllReduceStart(instrs, ar))
     IN /\ instrs[ar].opcode = "kAllReduce"
        /\ \E ok \in BOOLEAN :
             FinishRewrite(ar,
               ReplaceWithNewInstruction(withStart, root, ar, done,
                 CreateUnary(computation, "kAllReduceDone", start), ok),
               next_id + 2, [start |-> start, done |-> done], 0, WithContext(ar))

RewriteAllGather ==
  /\ pc = "rewrite"
  /\ supported_collectives # <<>>
  /\ LET ag == Head(supported_collectives)
         start == next_id
         done == next_id + 1
         withStart == AddInstruction(instrs, start, CreateAllGatherStart(instrs, ag))
     IN /\ instrs[ag].opcode = "kAllGather"
        /\ \E ok \in BOOLEAN :
             FinishRewrite(ag,
               ReplaceWithNewInstruction(withStart, root, ag, done,
                 CreateUnary(computation, "kAllGatherDone", start), ok),
               next_id + 2, [start |-> start, done |-> done], 0, WithContext(ag))

RewriteCollectivePermute ==
  /\ pc = "rewrite"
  /\ supported_collectives # <<>>
  /\ LET cp == Head(supported_collectives)
         start == next_id
         withStart == AddInstruction(instrs, start,
                                     CreateCollectivePermuteStart(instrs, cp))
         \* !track_send_recv_separately_(cp)
         withDone == AddInstruction(withStart, next_id + 1,
                       CreateUnary(computation, "kCollectivePermuteDone", start))
         \* track_send_recv_separately_(cp)
         recv == next_id + 1
         send == next_id + 2
         withRecv == AddInstruction(withStart, recv, CpRecvDone(computation, start))
         withSend == AddInstruction(withRecv, send, CpSendDone(computation, start))
         ctl == AddControlDependencyTo(withSend, recv, send)
         split == Accepts(track_send_recv_separately_, cp)
     IN /\ instrs[cp].opcode = "kCollectivePermute"
        /\ IF StartShapeValueCrashes(instrs, cp)
           THEN /\ pc' = "crashed"
                /\ UNCHANGED <<module_vars, config_vars, execution_threads,
                               computations, computation, supported_collectives,
                               replaced_pairs, should_update_schedule, changed,
                               result, pre, replaced_by, history>>
           ELSE IF split /\ ~ctl.ok
           THEN /\ instrs' = ctl.instrs
                /\ next_id' = next_id + 3
                /\ ReturnFrom(WithoutContext)
                /\ UNCHANGED <<root, has_schedule, sequences, config_vars,
                               execution_threads, computations, computation,
                               supported_collectives, replaced_pairs,
                               should_update_schedule, changed, pre, replaced_by>>
           ELSE \E ok \in BOOLEAN :
                  IF split
                  THEN FinishRewrite(cp,
                         ReplaceInstruction(ctl.instrs, root, cp, recv, ok),
                         next_id + 3, [start |-> start, done |-> recv], send,
                         WithoutContext)
                  ELSE FinishRewrite(cp,
                         ReplaceInstruction(withDone, root, cp, next_id + 1, ok),
                         next_id + 2, [start |-> start, done |-> next_id + 1], 0,
                         WithoutContext)

RewriteAllToAll ==
  /\ pc = "rewrite"
  /\ supported_collectives # <<>>
  /\ LET ata == Head(supported_collectives) IN
        /\ instrs[ata].opcode = "kAllToAll"
        /\ \E ok \in BOOLEAN :
             LET made == CreateAsyncInstructions(instrs, root, ata, next_id, ok) IN
             IF made.ok
             THEN LET async_done == made.done
                      async_start == made.instrs[async_done].operands[1]
                  IN /\ instrs' = made.instrs
                     /\ root' = made.root
                     /\ next_id' = next_id + 2
                     /\ replaced_pairs' =
                          IF should_update_schedule
                          THEN Put(replaced_pairs, ata,
                                   [start |-> async_start, done |-> async_done])
                          ELSE replaced_pairs
                     /\ changed' = TRUE
                     /\ supported_collectives' = Tail(supported_collectives)
                     /\ replaced_by' = Put(replaced_by, ata,
                                           [start |-> async_start,
                                            done |-> async_done, send_done |-> 0])
                     /\ UNCHANGED <<pc, result, history>>
             ELSE /\ ReturnFrom(WithoutContext)
                  /\ UNCHANGED <<instrs, root, next_id, replaced_pairs, changed,
                                 supported_collectives, replaced_by>>
  /\ UNCHANGED <<has_schedule, sequences, config_vars, execution_threads,
                 computations, computation, should_update_schedule, pre>>

\* After the last candidate of the computation: the schedule patch, then the
\* next computation.
PatchSchedule ==
  /\ pc = "rewrite"
  /\ supported_collectives = <<>>
  /\ sequences' = IF should_update_schedule
                  THEN [sequences EXCEPT ![computation] =
                          NewSequence(sequences[computation], replaced_pairs)]
                  ELSE sequences
  /\ computations' = Tail(computations)
  /\ pc' = "scan"
  /\ UNCHANGED <<instrs, root, next_id, has_schedule, config_vars,
                 execution_threads, computation, supported_collectives,
                 replaced_pairs, should_update_schedule, changed, result, pre,
                 replaced_by, history>>

\* return changed;
Return ==
  /\ pc = "scan"
  /\ computations = <<>>
  /\ ReturnFrom(OkResult(changed))
  /\ UNCHANGED <<module_vars, config_vars, execution_threads, computations,
                 computation, supported_collectives, replaced_pairs,
                 should_update_schedule, changed, pre, replaced_by>>

Next ==
  \/ StartRun
  \/ ScanComputation
  \/ RewriteAllReduce
  \/ RewriteAllGather
  \/ RewriteCollectivePermute
  \/ RewriteAllToAll
  \/ PatchSchedule
  \/ Return

Spec == Init /\ [][Next]_vars


\* ------------------------------------------------------------ properties

CollectiveOpcodes == {"kAllReduce", "kAllGather", "kCollectivePermute", "kAllToAll"}

StartOpcode(op) ==
  CASE op = "kAllReduce" -> "kAllReduceStart"
    [] op = "kAllGather" -> "kAllGatherStart"
    [] op = "kCollectivePermute" -> "kCollectivePermuteStart"
    [] op = "kAllToAll" -> "kAsyncStart"

DoneOpcode(op) ==
  CASE op = "kAllReduce" -> "kAllReduceDone"
    [] op = "kAllGather" -> "kAllGatherDone"
    [] op = "kCollectivePermute" -> "kCollectivePermuteDone"
    [] op = "kAllToAll" -> "kAsyncDone"

\* The predicate the pass was configured with for the kind of instruction i.
AcceptedBy(I, i) ==
  CASE I[i].opcode = "kAllReduce" -> Accepts(convert_all_reduce_, i)
    [] I[i].opcode = "kAllGather" -> Accepts(convert_all_gather_, i)
    [] I[i].opcode = "kCollectivePermute" -> Accepts(convert_collective_permute_, i)
    [] I[i].opcode = "kAllToAll" -> Accepts(convert_all_to_all_, i)
    [] OTHER -> FALSE

AllAccepting ==
  /\ convert_all_reduce_ = "all"
  /\ convert_all_gather_ = "all"
  /\ convert_collective_permute_ = "all"
  /\ convert_all_to_all_ = "all"

\* The last call of Run returned a boolean.
RunSucceeded == pc = "idle" /\ history # <<>> /\ result.kind = "ok"

\* The last call of Run returned a failure.
RunFailed == pc = "idle" /\ history # <<>> /\ result.kind = "failure"

\* The computation was among those the current call processes.
Processed(c) == execution_threads = {} \/ ExecutionThread(c) \in execution_threads

IdsOf(I, c) == {i \in DOMAIN I : I[i].computation = c}

\* The instructions of a computation with their operand edges.
CompView(I, c) == [i \in IdsOf(I, c) |-> I[i]]

\* Split recv-done/send-done tracking was selected for collective-permute x.
Split(x) ==
  /\ pre.instrs[x].opcode = "kCollectivePermute"
  /\ Accepts(track_send_recv_separately_, x)

\* The instructions created for the replaced instruction x.
NewOf(x) ==
  {replaced_by[x].start, replaced_by[x].done} \cup
  (IF replaced_by[x].send_done = 0 THEN {} ELSE {replaced_by[x].send_done})

\* The instruction that stands for u of the module before the call.
Current(u) == IF u \in DOMAIN replaced_by THEN replaced_by[u].start ELSE u

\* The instruction that produces, after the call, the value o produced before.
Mapped(o) == IF o \in DOMAIN replaced_by THEN replaced_by[o].done ELSE o

RECURSIVE Reach(_, _)
Reach(I, S) ==
  LET S2 == S \cup UNION {Range(I[i].operands) : i \in S \cap DOMAIN I}
  IN IF S2 = S THEN S ELSE Reach(I, S2)

\* What a dead-code elimination keeps: what the roots and the instructions
\* with side effects reach.
Kept(I, r) ==
  Reach(I, {r[c] : c \in DOMAIN r} \cup {i \in DOMAIN I : I[i].has_side_effect})

IsTotalOrder(seq, I, c) ==
  /\ Range(seq) = IdsOf(I, c)
  /\ Cardinality(Range(seq)) = Len(seq)

\* C1: after a successful Run with all four predicates accepting every
\* instance, every collective of a processed computation is gone, stands
\* replaced by one start and one done of its kind (start, recv-done and
\* send-done under split tracking), these are all the instructions the run
\* added to the computation, and no instruction of the four kinds remains.
C1_EveryCollectiveReplaced ==
  (RunSucceeded /\ AllAccepting) =>
    \A c \in Comps : Processed(c) =>
      LET olds == {x \in IdsOf(pre.instrs, c) :
                     pre.instrs[x].opcode \in CollectiveOpcodes}
          news == IdsOf(instrs, c) \ DOMAIN pre.instrs
      IN /\ \A i \in IdsOf(instrs, c) : instrs[i].opcode \notin CollectiveOpcodes
         /\ olds \subseteq DOMAIN replaced_by
         /\ \A x \in olds :
              /\ x \notin DOMAIN instrs
              /\ NewOf(x) \subseteq IdsOf(instrs, c)
              /\ instrs[replaced_by[x].start].opcode = StartOpcode(pre.instrs[x].opcode)
              /\ IF Split(x)
                 THEN /\ Cardinality(NewOf(x)) = 3
                      /\ instrs[replaced_by[x].done].custom_call_target = "$cp_recv_done"
                      /\ instrs[replaced_by[x].send_done].custom_call_target = "$cp_send_done"
                 ELSE /\ Cardinality(NewOf(x)) = 2
                      /\ instrs[replaced_by[x].done].opcode = DoneOpcode(pre.instrs[x].opcode)
         /\ news = UNION {NewOf(x) : x \in olds}
         /\ \A x \in olds : \A y \in olds : x # y => NewOf(x) \cap NewOf(y) = {}

C1_Witness ==
  /\ RunSucceeded
  /\ AllAccepting
  /\ \E x \in DOMAIN replaced_by : \E y \in DOMAIN replaced_by :
       /\ Split(x)
       /\ pre.instrs[y].opcode = "kAllToAll"
       /\ pre.instrs[x].computation = pre.instrs[y].computation

\* C2: after a successful Run, for every replaced collective, whatever read
\* it before reads its done (recv-done under split tracking) in the same
\* operand position, the done reads the start, the start reads what the
\* original read, and the original is neither in the module nor reachable
\* from a root.
C2_UsersRewired ==
  RunSucceeded =>
    \A x \in DOMAIN replaced_by :
      LET start == replaced_by[x].start
          done == replaced_by[x].done
      IN /\ x \notin DOMAIN instrs
         /\ x \notin Reach(instrs, {root[c] : c \in Comps})
         /\ instrs[done].operands = <<start>>
         /\ Split(x) => instrs[done].custom_call_target = "$cp_recv_done"
         /\ instrs[start].operands =
              [k \in DOMAIN pre.instrs[x].operands |-> Mapped(pre.instrs[x].operands[k])]
         /\ pre.root[pre.instrs[x].computation] = x =>
              root[pre.instrs[x].computation] = done
         /\ \A u \in DOMAIN pre.instrs : \A k \in DOMAIN pre.instrs[u].operands :
              pre.instrs[u].operands[k] = x =>
                instrs[Current(u)].operands[k] = done

C2_Witness ==
  /\ RunSucceeded
  /\ \E x \in DOMAIN replaced_by : \E u \in DOMAIN pre.instrs :
       /\ u \notin DOMAIN replaced_by
       /\ pre.instrs[x].opcode = "kAllReduce"
       /\ x \in Range(pre.instrs[u].operands)
       /\ replaced_by[x].done \in Range(instrs[u].operands)

\* The replaced instructions among the first n entries of a sequence.
ReplacedIn(seq, n) == Cardinality({m \in 1..n : seq[m] \in DOMAIN replaced_by})

\* C3: after a successful Run, the sequence of a scheduled computation with
\* N entries of which k were replaced has N + k entries, each replaced
\* entry's slot holds its start immediately followed by its done, and the
\* unreplaced entries keep their relative order.
C3_SchedulePatched ==
  RunSucceeded =>
    \A c \in DOMAIN sequences :
      LET old == pre.sequences[c]
          new == sequences[c]
      IN /\ Len(new) = Len(old) + ReplacedIn(old, Len(old))
         /\ \A j \in DOMAIN old :
              old[j] \in DOMAIN replaced_by =>
                /\ new[j + ReplacedIn(old, j - 1)] = replaced_by[old[j]].start
                /\ new[j + ReplacedIn(old, j - 1) + 1] = replaced_by[old[j]].done
         /\ SelectSeq(new, LAMBDA i : i \in Range(old)) =
              SelectSeq(old, LAMBDA i : i \notin DOMAIN replaced_by)

C3_Witness ==
  /\ RunSucceeded
  /\ \E c \in DOMAIN sequences :
       /\ ReplacedIn(pre.sequences[c], Len(pre.sequences[c])) = 1
       /\ Len(pre.sequences[c]) = 3
       /\ Len(sequences[c]) = 4
       /\ pre.sequences[c][2] \in DOMAIN replaced_by

\* C4: if the sequence of a scheduled computation was a total order over
\* exactly the computation's instructions before Run, it is one after a
\* successful Run, for every kind and both collective-permute modes.
C4_ScheduleStaysTotalOrder ==
  RunSucceeded =>
    \A c \in DOMAIN sequences :
      IsTotalOrder(pre.sequences[c], pre.instrs, c) =>
        IsTotalOrder(sequences[c], instrs, c)

\* C5: under split tracking the rewrite of a collective-permute leaves a
\* recv-done and a send-done that both read the start and both have a side
\* effect (a dead-code elimination keeps both), a control edge from
\* recv-done to send-done, and recv-done in the place of the original for
\* the original's users.
C5_SplitTracking ==
  \A x \in DOMAIN replaced_by :
    Split(x) =>
      LET start == replaced_by[x].start
          recv == replaced_by[x].done
          send == replaced_by[x].send_done
      IN /\ {start, recv, send} \subseteq DOMAIN instrs
         /\ instrs[recv].custom_call_target = "$cp_recv_done"
         /\ instrs[send].custom_call_target = "$cp_send_done"
         /\ instrs[recv].operands = <<start>>
         /\ instrs[send].operands = <<start>>
         /\ instrs[recv].has_side_effect
         /\ instrs[send].has_side_effect
         /\ {recv, send} \subseteq Kept(instrs, root)
         /\ send \in instrs[recv].control_successors
         /\ recv \notin instrs[send].control_successors
         /\ \A u \in DOMAIN pre.instrs : \A k \in DOMAIN pre.instrs[u].operands :
              pre.instrs[u].operands[k] = x =>
                instrs[Current(u)].operands[k] = recv

C5_Witness ==
  \E x \in DOMAIN replaced_by :
    /\ Split(x)
    /\ \E u \in DOMAIN pre.instrs : x \in Range(pre.instrs[u].operands)
    /\ replaced_by[x].send_done \in DOMAIN instrs
    /\ replaced_by[x].send_done \notin Reach(instrs, {root[c] : c \in Comps})

\* The call ended at a four-operand collective-permute whose shape inference
\* fails.
InferenceFailed ==
  /\ pc \in {"idle", "crashed"}
  /\ supported_collectives # <<>>
  /\ LET x == Head(supported_collectives) IN
       /\ x \in DOMAIN instrs
       /\ instrs[x].opcode = "kCollectivePermute"
       /\ Len(instrs[x].operands) = 4
       /\ ~instrs[x].infer_ok

\* C6: when shape inference fails for an accepted four-operand
\* collective-permute, Run returns a failure (no crash, no boolean) and the
\* computation of that instruction is as it was before the call.
C6_InferenceFailureReturned ==
  InferenceFailed =>
    /\ pc = "idle"
    /\ result.kind = "failure"
    /\ CompView(instrs, computation) = CompView(pre.instrs, computation)
    /\ root[computation] = pre.root[computation]

\* C7: a successful Run returns true exactly when an instruction was
\* replaced; and at every moment a computation without an accepted
\* instruction of a supported kind, or outside the requested execution
\* threads, is as it was before the call (instructions, operand edges, root
\* and sequence).
C7_ChangedAndFrame ==
  /\ RunSucceeded =>
       (result.value <=> \E x \in DOMAIN pre.instrs : x \notin DOMAIN instrs)
  /\ \A c \in Comps :
       (~Processed(c) \/ \A i \in IdsOf(pre.instrs, c) : ~AcceptedBy(pre.instrs, i)) =>
         /\ CompView(instrs, c) = CompView(pre.instrs, c)
         /\ root[c] = pre.root[c]
         /\ c \in DOMAIN sequences => sequences[c] = pre.sequences[c]

C7_Witness ==
  /\ RunSucceeded
  /\ result.value
  /\ execution_threads = {}
  /\ \E c \in Comps :
       /\ \E i \in IdsOf(pre.instrs, c) : pre.instrs[i].opcode \in CollectiveOpcodes
       /\ \A i \in IdsOf(pre.instrs, c) : ~AcceptedBy(pre.instrs, i)
       /\ c \in DOMAIN sequences

\* The last call was made with the execution threads of the call before it.
Rerun ==
  /\ RunSucceeded
  /\ Len(history) >= 2
  /\ history[Len(history) - 1].result.kind = "ok"
  /\ history[Len(history)].execution_threads =
       history[Len(history) - 1].execution_threads

StructurallyValid ==
  /\ \A i \in DOMAIN instrs :
       Range(instrs[i].operands) \subseteq IdsOf(instrs, instrs[i].computation)
  /\ \A c \in DOMAIN sequences :
       /\ Range(sequences[c]) \subseteq IdsOf(instrs, c)
       /\ IsTotalOrder(sequences[c], instrs, c)

\* C9: when Run returns a failure after it replaced candidates of the
\* computation, the module is structurally valid.
C9_ValidAfterFailure ==
  (RunFailed /\ \E x \in DOMAIN replaced_by : pre.instrs[x].computation = computation)
    => StructurallyValid

\* C10: a failure of the replacement primitive for an all-reduce, all-gather
\* or collective-permute is returned with the identity of the instruction
\* that was being replaced.
C10_FailureNamesInstruction ==
  (RunFailed /\ supported_collectives # <<>>) =>
    LET x == Head(supported_collectives) IN
    instrs[x].opcode \in {"kAllReduce", "kAllGather", "kCollectivePermute"} =>
      result.context = x

====
